---- MODULE Spec2Model ----
(***************************************************************************)
(* Model of the joestar runtime bridge (src/joestar/src/rt.rs, api.rs):    *)
(* the controller thread's event loop, the user thread, the command        *)
(* channel (EventLoopProxy), the dispatch channel (mpsc), the callback     *)
(* registry, and the textual Agent notation.                               *)
(*                                                                         *)
(* Text is modelled as a sequence of one-character strings, so that        *)
(* formatting and parsing are computed character by character.            *)
(***************************************************************************)
EXTENDS Integers, Sequences, FiniteSets, TLC

----------------------------------------------------------------------------
(* Bounds of the model *)

\* the run has at most MaxSteps inputs: calls of the API by user code and
\* window events or IPC messages that push an invocation on the dispatch channel
MaxSteps == 4
\* largest child index used in Agent paths of the codec specification
MaxIndex == 11
\* longest Agent path of the codec specification
MaxPathLen == 2
\* most UserLaunch events the launch specification delivers
MaxLaunch == 3
\* most elements of a Model of the markup specification
MaxElements == 3
\* most key/value pairs of a detail map of the wire specification
MaxPairs == 2

----------------------------------------------------------------------------
(* Text helpers: the std routines the code calls *)

Digits == <<"0", "1", "2", "3", "4", "5", "6", "7", "8", "9">>

IsDigit(c) == \E i \in 1..Len(Digits) : Digits[i] = c

DigitVal(c) == (CHOOSE i \in 1..Len(Digits) : Digits[i] = c) - 1

IsWhitespace(c) == c \in {" ", "\n", "\t", "\r"}

\* format!("{}", n) for an unsigned integer
RECURSIVE to_string(_)
to_string(n) ==
    IF n < Len(Digits) THEN <<Digits[n + 1]>>
    ELSE to_string(n \div Len(Digits)) \o <<Digits[(n % Len(Digits)) + 1]>>

RECURSIVE digits_value(_)
digits_value(t) ==
    IF t = <<>> THEN 0
    ELSE digits_value(SubSeq(t, 1, Len(t) - 1)) * Len(Digits) + DigitVal(t[Len(t)])

\* str::parse::<usize>(): an optional '+', then one or more decimal digits
\* (values beyond usize::MAX are outside the model's bounds)
parse_usize(t) ==
    LET body == IF t # <<>> /\ t[1] = "+" THEN Tail(t) ELSE t
    IN  IF body = <<>> \/ \E i \in 1..Len(body) : ~IsDigit(body[i])
        THEN [ok |-> FALSE, val |-> 0]
        ELSE [ok |-> TRUE, val |-> digits_value(body)]

\* str::split(c) for a character c: always at least one segment
RECURSIVE split(_, _)
split(t, c) ==
    IF \A i \in 1..Len(t) : t[i] # c THEN <<t>>
    ELSE LET k == CHOOSE i \in 1..Len(t) :
                      t[i] = c /\ \A j \in 1..(i - 1) : t[j] # c
         IN  <<SubSeq(t, 1, k - 1)>> \o split(SubSeq(t, k + 1, Len(t)), c)

\* str::trim(): strips leading and trailing whitespace
RECURSIVE trim(_)
trim(t) ==
    IF t = <<>> THEN t
    ELSE IF IsWhitespace(t[1]) THEN trim(Tail(t))
    ELSE IF IsWhitespace(t[Len(t)]) THEN trim(SubSeq(t, 1, Len(t) - 1))
    ELSE t

\* whether pat occurs in t at position i
MatchesAt(t, i, pat) ==
    i + Len(pat) - 1 <= Len(t) /\ SubSeq(t, i, i + Len(pat) - 1) = pat

\* str::split(pat) for a string pattern
RECURSIVE split_str(_, _)
split_str(t, pat) ==
    IF \A i \in 1..Len(t) : ~MatchesAt(t, i, pat) THEN <<t>>
    ELSE LET k == CHOOSE i \in 1..Len(t) :
                      MatchesAt(t, i, pat) /\ \A j \in 1..(i - 1) : ~MatchesAt(t, j, pat)
         IN  <<SubSeq(t, 1, k - 1)>> \o split_str(SubSeq(t, k + Len(pat), Len(t)), pat)

\* str::lines(): split at "\n", a "\r" before it is dropped, and a final
\* empty line is no line
lines(t) ==
    LET segs == split(t, "\n")
        n == Len(segs)
        strip(i) == IF i < n /\ segs[i] # <<>> /\ segs[i][Len(segs[i])] = "\r"
                    THEN SubSeq(segs[i], 1, Len(segs[i]) - 1)
                    ELSE segs[i]
    IN  [i \in 1..(IF segs[n] = <<>> THEN n - 1 ELSE n) |-> strip(i)]

\* the segments of a sequence of texts that are not empty
NonEmptySegs(segs) == SelectSeq(segs, LAMBDA x : x # <<>>)

----------------------------------------------------------------------------
(* Agent and its notation (api.rs) *)

\* Position::Path(path) / Position::IdPath(id, path); id is <<>> for Path
Agent(ord, kind, id, path) == [ord |-> ord, kind |-> kind, id |-> id, path |-> path]

\* the outcome of a conversion that panicked (an unwrap() on None or Err)
PanicAgent == [ord |-> 0, kind |-> "panic", id |-> <<>>, path |-> <<>>]

\* View::root()
root(ord) == Agent(ord, "Path", <<>>, <<>>)

\* View::lookup(id)
lookup(ord, id) == Agent(ord, "IdPath", id, <<>>)

\* C30 mutant: the path given replaces the path of the agent
solve_replace(a, path) == Agent(a.ord, a.kind, a.id, path)

\* Agent::solve(path)
solve(a, path) == Agent(a.ord, a.kind, a.id, a.path \o path)

\* the loop `for i in path { notation.push_str(&format!("{},", i)) }`
RECURSIVE path_notation(_)
path_notation(p) ==
    IF p = <<>> THEN <<>>
    ELSE to_string(Head(p)) \o <<",">> \o path_notation(Tail(p))

\* impl Into<String> for Agent
AgentInto(a) ==
    IF a.kind = "Path"
    THEN to_string(a.ord) \o <<":">> \o path_notation(a.path)
    ELSE to_string(a.ord) \o <<",">> \o a.id \o <<":">> \o path_notation(a.path)

\* the index loop of From<&str>: every segment is parsed and unwrapped
ParsePath(segs, ord, kind, id) ==
    IF \E i \in 1..Len(segs) : ~parse_usize(segs[i]).ok THEN PanicAgent
    ELSE Agent(ord, kind, id, [i \in 1..Len(segs) |-> parse_usize(segs[i]).val])

\* impl From<&str> for Agent: the IdPath branch skips empty segments of the
\* tail, the Path branch parses every segment
AgentFrom(s) ==
    LET parts == split(trim(s), ":")
    IN  IF Len(parts) < 2 THEN PanicAgent
        ELSE LET head == split(parts[1], ",")
                 tail == parts[2]
                 ord  == parse_usize(head[1])
             IN  IF ~ord.ok THEN PanicAgent
                 ELSE IF Len(head) >= 2
                 THEN ParsePath(NonEmptySegs(split(tail, ",")), ord.val, "IdPath", head[2])
                 ELSE ParsePath(split(tail, ","), ord.val, "Path", <<>>)

----------------------------------------------------------------------------
(* Partial maps (BTreeMap / HashMap) *)

EmptyMap == [x \in {} |-> x]

MapInsert(m, k, v) == [x \in DOMAIN m \cup {k} |-> IF x = k THEN v ELSE m[x]]

MapRemove(m, k) == [x \in DOMAIN m \ {k} |-> m[x]]

Range(s) == {s[i] : i \in DOMAIN s}

----------------------------------------------------------------------------
VARIABLES
    \* controller thread: the event loop and RtState
    cmdq,                       \* user events queued in the EventLoopProxy
    views,                      \* RtState.views: ord -> WebView (its window)
    view_event_callback_map,    \* RtState.view_event_callback_map
    view_wid_map,               \* RtState.view_wid_map: WindowId -> ord
    control_flow,               \* the event loop's ControlFlow
    ctrl,                       \* "running", "panicked", or "exited" once the
                                \* loop has delivered LoopDestroyed
    windows,                    \* number of windows the engine has built
    \* user thread
    upc,                        \* position of the user thread
    PROXY,                      \* the user thread's thread-local PROXY is Some
    SENDER,                     \* the static SENDER is Some
    dispatchq,                  \* closures queued in the mpsc channel
    VIEW_ID_NEXT,
    VIEW_CUR,
    \* the callback registry
    CALLBACKS,                  \* id -> closure
    CALLBACK_ID_NEXT,
    cb_access,                  \* "busy" while the user thread is inside an
                                \* access of CALLBACKS, else "idle"
    \* history
    sent_count,                 \* number of commands sent so far
    applied,                    \* commands the controller has consumed, in order
    dispatch_log,               \* one entry per invocation dispatched, in order
    invoked,                    \* closure bodies called, in order
    new_ords,                   \* ords returned by View::new, in order
    cb_log,                     \* every Callback::create, in order: the id, the
                                \* closure, and the ids removed before it
    removed,                    \* ids Callback::remove was called on
    ops,                        \* number of API calls user code has made
    faults,                     \* the panics that have happened, one per thread
    evaluated,                  \* EvalScript commands whose script was run
    direct_log,                 \* closures user code called with Callback::invoke
    \* the codec specification
    codec,
    \* the launch specification: the user threads handle_user_launch has spawned
    launch,
    \* the specifications of the pure functions solve and html_string
    calc

ctrlVars == <<views, view_event_callback_map, view_wid_map, control_flow, ctrl, windows>>
userVars == <<upc, PROXY, SENDER>>
viewVars == <<VIEW_ID_NEXT, VIEW_CUR, new_ords>>
cbVars == <<CALLBACKS, CALLBACK_ID_NEXT, cb_access, cb_log, removed>>
cmdVars == <<cmdq, sent_count>>
dispVars == <<dispatchq, dispatch_log>>
histVars == <<faults, evaluated, direct_log>>
sideVars == <<codec, launch, calc>>

vars == <<cmdq, views, view_event_callback_map, view_wid_map, control_flow, ctrl,
          windows, upc, PROXY, SENDER, dispatchq, VIEW_ID_NEXT, VIEW_CUR,
          CALLBACKS, CALLBACK_ID_NEXT, cb_access, sent_count, applied, dispatch_log,
          invoked, new_ords, cb_log, removed, ops, faults, evaluated,
          direct_log, codec, launch, calc>>

----------------------------------------------------------------------------
(* Values *)

\* enum ViewEventKey
ViewEventKeys == {"CloseRequest", "Resize", "Move"}

\* the closure user code passes to the k-th Callback::create: every closure
\* is a value of its own
Closure(k) == [closure |-> k]

\* payloads of the native Resized / Moved events
Sizes == {<<8, 6>>}
Positions == {<<3, 4>>}

\* the script of a command that carries none
NoScript == [form |-> "none", agent |-> PanicAgent, key |-> <<>>, path |-> <<>>, id |-> 0]

\* the script Agent::bind builds: _lk_reg_evt(elem, key, path, callback.id)
\* on the element of the agent
BindScript(agent, key, id) ==
    [form |-> "bind", agent |-> agent, key |-> key, path |-> AgentInto(agent), id |-> id]

\* enum JoEvent; n is the position of the command among all commands sent
JoEvent(n, type, ord, key, cb_index) ==
    [n |-> n, type |-> type, ord |-> ord, key |-> key, cb_index |-> cb_index,
     script |-> NoScript]

\* JoEvent::EvalScript { ord, script }
EvalScript(n, ord, script) ==
    [JoEvent(n, "EvalScript", ord, "", 0) EXCEPT !.script = script]

\* a panic: the thread it unwinds, the call that panicked, and what the call
\* was given: the kind of invocation, the ord or callback id, the raw message
Fault(thread, cause, kind, id, raw) ==
    [thread |-> thread, cause |-> cause, kind |-> kind, id |-> id, raw |-> raw]

\* a closure handed to user_dispatch: kind "native" is the closure of
\* handle_wry_event, kind "ipc" the closure of the IPC handler
Invocation(n, kind, cb_index, agent, detail) ==
    [n |-> n, kind |-> kind, cb_index |-> cb_index, agent |-> agent, detail |-> detail]

\* WindowId of the k-th window the engine builds
WindowId(k) == [w |-> k]

\* usize::MAX as the two's complement number it is: all bits set
usize_MAX == -1

\* Agent::invalid()
invalid == Agent(usize_MAX, "Path", <<>>, <<>>)

WidthKey == <<"w", "i", "d", "t", "h">>
HeightKey == <<"h", "e", "i", "g", "h", "t">>
XKey == <<"x">>
YKey == <<"y">>

----------------------------------------------------------------------------
(* The channels *)

\* C3 mutant: the event is put in front of the queued ones
send_event_front(q, ev) == <<ev>> \o q

\* EventLoopProxy::send_event
send_event(q, ev) == Append(q, ev)

\* mpsc Sender::send
channel_send(q, f) == Append(q, f)

\* C2 mutant: the newest closure is received first
channel_recv_newest(q) == [item |-> q[Len(q)], rest |-> SubSeq(q, 1, Len(q) - 1)]

\* mpsc Receiver::recv: the closure received and what stays queued
channel_recv(q) == [item |-> Head(q), rest |-> Tail(q)]

\* the event loop takes the next user event of the proxy
proxy_next(q) == [ev |-> Head(q), rest |-> Tail(q)]

----------------------------------------------------------------------------
(* api.rs: view ids and the callback registry *)

\* the smallest number that is not in S
FirstFree(S) == CHOOSE x \in 0..Cardinality(S) : x \notin S /\ \A y \in 0..(x - 1) : y \in S

\* C6 mutant: the ord of a destroyed view is handed out again
next_view_id_recycle == [ret |-> FirstFree(Range(VIEW_CUR)), next |-> VIEW_ID_NEXT + 1]

\* fetch_add(1): the value returned and the value stored
next_view_id == [ret |-> VIEW_ID_NEXT, next |-> VIEW_ID_NEXT + 1]

\* C36 mutant: View::new does not record the new view in VIEW_CUR
add_cur_view_none(cur, id) == cur

\* VIEW_CUR.with(|x| x.borrow_mut().push(id))
add_cur_view(cur, id) == Append(cur, id)

\* C26 mutant: the last element is removed, whatever id is
remove_cur_view_pop(cur, id) == SubSeq(cur, 1, Len(cur) - 1)

\* Vec::swap_remove at the position of id
remove_cur_view(cur, id) ==
    LET index == CHOOSE i \in 1..Len(cur) : cur[i] = id /\ \A j \in 1..(i - 1) : cur[j] # id
        swapped == [cur EXCEPT ![index] = cur[Len(cur)]]
    IN  SubSeq(swapped, 1, Len(cur) - 1)

\* View::acquire(id)
acquire(id) == id \in Range(VIEW_CUR)

\* C7 mutant: the id of a removed callback is handed out again
Callback_create_recycle ==
    [id |-> FirstFree(DOMAIN CALLBACKS), next |-> CALLBACK_ID_NEXT + 1]

\* Callback::create: the id taken and the next value of the counter
Callback_create == [id |-> CALLBACK_ID_NEXT, next |-> CALLBACK_ID_NEXT + 1]

\* C10 mutant: get succeeds for every id that was ever created
Callback_get_created(id) == id < CALLBACK_ID_NEXT

\* Callback::get(id) is Some
Callback_get(id) == id \in DOMAIN CALLBACKS

\* Callback::remove
Callback_remove(cbs, id) == MapRemove(cbs, id)

\* Callback::invoke: get_mut(&id).unwrap() panics when the id is absent
Callback_invoke(id) == IF id \in DOMAIN CALLBACKS THEN "called" ELSE "panic"

----------------------------------------------------------------------------
(* rt.rs: the controller's handlers *)

\* C5 mutant: a key that is already registered keeps its callback
register_event_keep(m, ord, key, cb_index) ==
    LET callbacks == IF ord \in DOMAIN m THEN m[ord] ELSE EmptyMap
    IN  IF key \in DOMAIN callbacks THEN m
        ELSE MapInsert(m, ord, MapInsert(callbacks, key, cb_index))

\* JoEvent::RegisterEvent: entry(ord).or_default().insert(key, cb_index)
register_event(m, ord, key, cb_index) ==
    LET callbacks == IF ord \in DOMAIN m THEN m[ord] ELSE EmptyMap
    IN  MapInsert(m, ord, MapInsert(callbacks, key, cb_index))

\* C18 mutant: every native event is reported with the keys of a resize
native_detail_as_resize(key, payload) ==
    IF key = "CloseRequest" THEN EmptyMap
    ELSE MapInsert(MapInsert(EmptyMap, WidthKey, to_string(payload[1])),
                   HeightKey, to_string(payload[2]))

\* the detail map a native event is dispatched with
native_detail(key, payload) ==
    CASE key = "Resize" ->
            MapInsert(MapInsert(EmptyMap, WidthKey, to_string(payload[1])),
                      HeightKey, to_string(payload[2]))
      [] key = "Move" ->
            MapInsert(MapInsert(EmptyMap, XKey, to_string(payload[1])),
                      YKey, to_string(payload[2]))
      [] OTHER -> EmptyMap

Payloads(key) ==
    CASE key = "Resize" -> Sizes
      [] key = "Move" -> Positions
      [] OTHER -> {<<>>}

\* the inputs of the run are not used up
InBudget == ops + Len(dispatch_log) < MaxSteps

\* the process runs: the controller has not panicked and the loop has not exited
Alive == ctrl = "running" /\ control_flow = "Wait"

\* the RegisterEvent commands for (ord, key) the controller has applied
Registrations(ord, key) ==
    {i \in DOMAIN applied : /\ applied[i].type = "RegisterEvent"
                            /\ applied[i].ord = ord
                            /\ applied[i].key = key}

Max(S) == CHOOSE x \in S : \A y \in S : y <= x

\* the callback ids the commands applied so far registered for (ord, key),
\* oldest first
Registered(ord, key) ==
    LET regs == Registrations(ord, key)
    IN  IF regs = {} THEN <<>>
        ELSE IF Cardinality(regs) = 1 THEN <<applied[Max(regs)].cb_index>>
        ELSE <<applied[Max(regs \ {Max(regs)})].cb_index, applied[Max(regs)].cb_index>>

\* user_dispatch(f): SENDER.as_ref().unwrap().send(f).unwrap()
\* panics when SENDER is None or the receiver is gone; src is what the
\* dispatch log keeps of the event: the view and the key it came from; the
\* log also keeps the last two ids registered for that pair at this moment,
\* and whether the view is in views
user_dispatch(f, src) ==
    IF SENDER /\ upc # "panicked"
    THEN /\ dispatchq' = channel_send(dispatchq, f)
         /\ dispatch_log' = Append(dispatch_log,
                [n |-> f.n, kind |-> f.kind, cb_index |-> f.cb_index,
                 ord |-> src.ord, key |-> src.key,
                 registered |-> Registered(src.ord, src.key),
                 live |-> src.ord \in DOMAIN views])
         /\ ctrl' = "running"
         /\ UNCHANGED faults
    ELSE /\ ctrl' = "panicked"
         /\ faults' = faults \cup {Fault("controller", "user_dispatch", f.kind,
                                         f.cb_index, <<>>)}
         /\ UNCHANGED dispVars

\* the native-event arms of handle_wry_event hand the closure to user_dispatch
native_deliver(f, src) == user_dispatch(f, src) /\ UNCHANGED invoked

\* C20 mutant: the spawned thread starts without installing the proxy
handle_user_launch_no_proxy ==
    /\ upc' = "proxy_set"
    /\ UNCHANGED <<ctrlVars, PROXY, SENDER, faults, evaluated>>

\* handle_user_launch: thread::spawn
handle_user_launch ==
    /\ upc' = "spawned"
    /\ UNCHANGED <<ctrlVars, PROXY, SENDER, faults, evaluated>>

\* C28 mutant: the window of the new view is not entered in view_wid_map
handle_create_web_view_no_wid(ord) ==
    LET window_id == WindowId(windows)
    IN  /\ windows' = windows + 1
        /\ views' = MapInsert(views, ord, window_id)
        /\ view_event_callback_map' = MapInsert(view_event_callback_map, ord, EmptyMap)
        /\ UNCHANGED <<view_wid_map, control_flow, ctrl, userVars, faults, evaluated>>

\* handle_create_web_view
handle_create_web_view(ord) ==
    LET window_id == WindowId(windows)
    IN  /\ windows' = windows + 1
        /\ views' = MapInsert(views, ord, window_id)
        /\ view_event_callback_map' = MapInsert(view_event_callback_map, ord, EmptyMap)
        /\ view_wid_map' = MapInsert(view_wid_map, window_id, ord)
        /\ UNCHANGED <<control_flow, ctrl, userVars, faults, evaluated>>

\* C13 mutant: the script of an unknown view is skipped
eval_script_skip_unknown(ev) ==
    /\ evaluated' = IF ev.ord \in DOMAIN views THEN evaluated \cup {ev} ELSE evaluated
    /\ UNCHANGED <<ctrl, faults>>

\* JoEvent::EvalScript: state.views.get(&ord).unwrap().evaluate_script(&script)
eval_script(ev) ==
    IF ev.ord \in DOMAIN views
    THEN /\ evaluated' = evaluated \cup {ev}
         /\ UNCHANGED <<ctrl, faults>>
    ELSE /\ ctrl' = "panicked"
         /\ faults' = faults \cup {Fault("controller", "EvalScript", "", ev.ord, <<>>)}
         /\ UNCHANGED evaluated

\* C14 mutant: destroying an unknown view is accepted
destroy_web_view_lenient(ev) ==
    /\ views' = MapRemove(views, ev.ord)
    /\ UNCHANGED <<ctrl, faults>>

\* JoEvent::DestroyWebView: state.views.remove(&ord).unwrap()
destroy_web_view(ev) ==
    IF ev.ord \in DOMAIN views
    THEN /\ views' = MapRemove(views, ev.ord)
         /\ UNCHANGED <<ctrl, faults>>
    ELSE /\ ctrl' = "panicked"
         /\ faults' = faults \cup {Fault("controller", "DestroyWebView", "", ev.ord, <<>>)}
         /\ UNCHANGED views

\* C25 mutant: the Terminate arm leaves the control flow at Wait
terminate_flow_wait == "Wait"

\* JoEvent::Terminate: *control_flow = ControlFlow::Exit
terminate_flow == "Exit"

\* C35 mutant: DestroyWebView also drops the view's callback map
handle_joestar_event_destroy_clears(ev) ==
    CASE ev.type = "UserLaunch" -> handle_user_launch
      [] ev.type = "CreateWebView" -> handle_create_web_view(ev.ord)
      [] ev.type = "EvalScript" ->
            /\ eval_script(ev)
            /\ UNCHANGED <<views, view_event_callback_map, view_wid_map,
                           control_flow, windows, userVars>>
      [] ev.type = "DestroyWebView" ->
            /\ destroy_web_view(ev)
            /\ view_event_callback_map' = MapRemove(view_event_callback_map, ev.ord)
            /\ UNCHANGED <<view_wid_map, control_flow, windows, userVars, evaluated>>
      [] ev.type = "RegisterEvent" ->
            /\ view_event_callback_map' =
                   register_event(view_event_callback_map, ev.ord, ev.key, ev.cb_index)
            /\ UNCHANGED <<views, view_wid_map, control_flow, ctrl, windows, userVars,
                           faults, evaluated>>
      [] ev.type = "Terminate" ->
            /\ control_flow' = terminate_flow
            /\ UNCHANGED <<views, view_event_callback_map, view_wid_map, ctrl,
                           windows, userVars, faults, evaluated>>

\* handle_joestar_event
handle_joestar_event(ev) ==
    CASE ev.type = "UserLaunch" -> handle_user_launch
      [] ev.type = "CreateWebView" -> handle_create_web_view(ev.ord)
      [] ev.type = "EvalScript" ->
            /\ eval_script(ev)
            /\ UNCHANGED <<views, view_event_callback_map, view_wid_map,
                           control_flow, windows, userVars>>
      [] ev.type = "DestroyWebView" ->
            /\ destroy_web_view(ev)
            /\ UNCHANGED <<view_event_callback_map, view_wid_map,
                           control_flow, windows, userVars, evaluated>>
      [] ev.type = "RegisterEvent" ->
            /\ view_event_callback_map' =
                   register_event(view_event_callback_map, ev.ord, ev.key, ev.cb_index)
            /\ UNCHANGED <<views, view_wid_map, control_flow, ctrl, windows, userVars,
                           faults, evaluated>>
      [] ev.type = "Terminate" ->
            /\ control_flow' = terminate_flow
            /\ UNCHANGED <<views, view_event_callback_map, view_wid_map, ctrl,
                           windows, userVars, faults, evaluated>>

\* the event loop delivers Event::UserEvent(jo_event)
CtrlUserEvent ==
    /\ Alive
    /\ cmdq # <<>>
    /\ cmdq' = proxy_next(cmdq).rest
    /\ applied' = Append(applied, proxy_next(cmdq).ev)
    /\ handle_joestar_event(proxy_next(cmdq).ev)
    /\ UNCHANGED <<sent_count, dispVars, viewVars, cbVars, invoked, ops, sideVars,
                   direct_log>>

\* the control flow of the loop after a call of handle_wry_event that found
\* it at `before` and left `after` in *control_flow: the event loop keeps Exit
\* once it was set, whatever the handler assigns later
loop_control_flow(before, after) == IF before = "Exit" THEN "Exit" ELSE after

\* after Exit the loop calls handle_wry_event once more, with
\* Event::LoopDestroyed, and ends: the handler assigns ControlFlow::Wait at
\* its top as for every event, and its LoopDestroyed arm is empty
CtrlLoopDestroyed ==
    /\ ctrl = "running"
    /\ control_flow = "Exit"
    /\ control_flow' = loop_control_flow(control_flow, "Wait")
    /\ ctrl' = "exited"
    /\ UNCHANGED <<cmdVars, views, view_event_callback_map, view_wid_map, windows,
                   userVars, dispVars, viewVars, cbVars, applied, invoked, ops,
                   sideVars, histVars>>

\* handle_wry_event, Event::WindowEvent with Resized, Moved or CloseRequested
CtrlWindowEvent(window_id, key, payload) ==
    /\ Alive
    /\ InBudget
    /\ IF window_id \notin DOMAIN view_wid_map
       THEN UNCHANGED <<ctrl, dispVars, invoked, faults>>
       ELSE LET ord == view_wid_map[window_id]
            IN  IF ord \notin DOMAIN view_event_callback_map
                THEN /\ ctrl' = "panicked"
                     /\ faults' = faults \cup {Fault("controller", "native", key, ord, <<>>)}
                     /\ UNCHANGED <<dispVars, invoked>>
                ELSE IF key \notin DOMAIN view_event_callback_map[ord]
                THEN UNCHANGED <<ctrl, dispVars, invoked, faults>>
                ELSE native_deliver(Invocation(Len(dispatch_log) + 1, "native",
                                               view_event_callback_map[ord][key],
                                               invalid, native_detail(key, payload)),
                                    [ord |-> ord, key |-> key])
    /\ UNCHANGED <<cmdVars, views, view_event_callback_map, view_wid_map,
                   control_flow, windows, userVars, viewVars, cbVars, applied, ops, sideVars,
                   evaluated, direct_log>>

\* the IPC handler's decoding of the raw message; ok is FALSE when one of
\* its unwrap() calls panics
RECURSIVE detail_map(_, _)
detail_map(ls, m) ==
    IF Len(ls) < 2 THEN m
    ELSE detail_map(SubSeq(ls, 3, Len(ls)), MapInsert(m, ls[1], ls[2]))

ipc_decode(raw) ==
    LET ls == lines(raw)
        failed == [ok |-> FALSE, agent |-> PanicAgent, cb_index |-> 0, detail |-> EmptyMap]
    IN  IF ls = <<>> THEN failed
        ELSE LET head == split_str(ls[1], <<">", ">", ">">>)
                 agent == AgentFrom(head[1])
             IN  IF agent = PanicAgent THEN failed
                 ELSE IF Len(head) < 2 THEN failed
                 ELSE IF ~parse_usize(head[2]).ok THEN failed
                 ELSE IF (Len(ls) - 1) % 2 = 1 THEN failed
                 ELSE [ok |-> TRUE, agent |-> agent,
                       cb_index |-> parse_usize(head[2]).val,
                       detail |-> detail_map(Tail(ls), EmptyMap)]

\* C1 mutant: the IPC handler calls the closure itself
ipc_invoke_direct(f, src) ==
    IF Callback_invoke(f.cb_index) = "panic"
    THEN /\ ctrl' = "panicked"
         /\ faults' = faults \cup {Fault("controller", "Callback::invoke", f.kind,
                                         f.cb_index, <<>>)}
         /\ UNCHANGED <<dispVars, invoked>>
    ELSE /\ invoked' = Append(invoked, [n |-> f.n, kind |-> f.kind,
                                        cb_index |-> f.cb_index,
                                        body |-> CALLBACKS[f.cb_index],
                                        thread |-> "controller",
                                        behind |-> dispatchq # <<>>,
                                        live |-> src.ord \in DOMAIN views])
         /\ UNCHANGED <<ctrl, dispVars, faults>>

\* the IPC handler hands the closure to user_dispatch
ipc_deliver(f, src) == user_dispatch(f, src) /\ UNCHANGED invoked

\* Callback::get(cb_index) called by the IPC handler on the controller
\* thread: CALLBACKS.contains_key of the static mut. While the user thread is
\* inside an access of its own the two race, and the read may find the id,
\* miss it, or fault on a map that is being rebuilt
controller_get(id) ==
    IF cb_access = "busy" THEN {"some", "none", "crash"}
    ELSE {IF Callback_get(id) THEN "some" ELSE "none"}

\* the closure given to with_ipc_handler, called with a message of the page
\* of view ord
CtrlIpc(ord, raw) ==
    /\ Alive
    /\ ord \in DOMAIN views
    /\ InBudget
    /\ LET d == ipc_decode(raw)
       IN  IF ~d.ok
           THEN /\ ctrl' = "panicked"
                /\ faults' = faults \cup {Fault("controller", "ipc", "", ord, raw)}
                /\ UNCHANGED <<dispVars, invoked>>
           ELSE \E got \in controller_get(d.cb_index) :
                CASE got = "none" -> UNCHANGED <<ctrl, dispVars, invoked, faults>>
                  [] got = "some" ->
                        ipc_deliver(Invocation(Len(dispatch_log) + 1, "ipc", d.cb_index,
                                               d.agent, d.detail),
                                    [ord |-> ord, key |-> ""])
                  [] got = "crash" ->
                        /\ ctrl' = "panicked"
                        /\ faults' = faults \cup {Fault("controller", "race", "",
                                                        d.cb_index, raw)}
                        /\ UNCHANGED <<dispVars, invoked>>
    /\ UNCHANGED <<cmdVars, views, view_event_callback_map, view_wid_map,
                   control_flow, windows, userVars, viewVars, cbVars, applied, ops, sideVars,
                   evaluated, direct_log>>

\* the wire form "<agent>>>><id>\n<k>\n<v>..." of a message
RECURSIVE wire_lines(_)
wire_lines(ls) ==
    IF ls = <<>> THEN <<>> ELSE <<"\n">> \o Head(ls) \o wire_lines(Tail(ls))

wire(notation, id_text, ls) ==
    notation \o <<">", ">", ">">> \o id_text \o wire_lines(ls)

\* the listeners the scripts of Agent::bind have registered in the page of
\* view ord
Listeners(ord) ==
    {c.script : c \in {e \in evaluated : e.ord = ord /\ e.script.form = "bind"}}

\* the key/value lines the page reports of an event
EventLines == <<<<"k">>, <<"7">>>>

\* the message the page posts when the event of a listener fires
ListenerMessage(l) == wire(l.path, to_string(l.id), EventLines)

PageMessages(ord) == {ListenerMessage(l) : l \in Listeners(ord)}

\* messages that are not of the form the handler decodes: no separator, a
\* callback id that is no number, a key without a value, no agent notation
MalformedMessages(ord) ==
    {<<"x">>,
     wire(AgentInto(lookup(ord, <<"b">>)), <<"z">>, <<>>),
     wire(AgentInto(lookup(ord, <<"b">>)), to_string(0), <<<<"k">>>>),
     wire(<<"q">>, to_string(0), <<>>)}

\* messages the page of view ord posts
IpcInputs(ord) ==
    {wire(AgentInto(lookup(ord, <<"b">>)), to_string(c), EventLines)
        : c \in 0..(MaxSteps - 1)}
    \cup {wire(AgentInto(root(ord)), to_string(0), <<>>)}
    \cup PageMessages(ord)
    \cup MalformedMessages(ord)

----------------------------------------------------------------------------
(* rt.rs: the user thread *)

\* PROXY.with(|p| *p.borrow_mut() = Some(proxy))
UserInstallProxy ==
    /\ Alive
    /\ upc = "spawned"
    /\ PROXY' = TRUE
    /\ upc' = "proxy_set"
    /\ UNCHANGED <<ctrlVars, SENDER, cmdVars, dispVars, viewVars, cbVars, applied,
                   invoked, ops, sideVars, histVars>>

\* C32 mutant: user_init() starts without init_sender(tx)
UserInitSender_skipped ==
    /\ Alive
    /\ upc = "proxy_set"
    /\ SENDER' = FALSE
    /\ upc' = "entry"
    /\ UNCHANGED <<ctrlVars, PROXY, cmdVars, dispVars, viewVars, cbVars, applied,
                   invoked, ops, sideVars, histVars>>

\* let (tx, rx) = mpsc::channel(); init_sender(tx); then user_init() starts
UserInitSender ==
    /\ Alive
    /\ upc = "proxy_set"
    /\ SENDER' = TRUE
    /\ upc' = "entry"
    /\ UNCHANGED <<ctrlVars, PROXY, cmdVars, dispVars, viewVars, cbVars, applied,
                   invoked, ops, sideVars, histVars>>

\* user code runs: inside user_init() or inside a callback body
UserRunning == Alive /\ upc \in {"entry", "callback"}

\* user code calls the API
CallApi == UserRunning /\ InBudget /\ cb_access = "idle" /\ ops' = ops + 1

\* the user thread enters an access of the static CALLBACKS, inside an API
\* call of user code or inside a closure it has received: the accesses are
\* plain reads and writes of a static mut, nothing keeps the controller out
UserEnterRegistry ==
    /\ Alive
    /\ cb_access = "idle"
    /\ \/ upc \in {"entry", "callback"} /\ InBudget
       \/ upc = "recv" /\ dispatchq # <<>>
    /\ cb_access' = "busy"
    /\ UNCHANGED <<ctrlVars, userVars, cmdVars, dispVars, viewVars, CALLBACKS,
                   CALLBACK_ID_NEXT, cb_log, removed, applied, invoked, ops,
                   sideVars, histVars>>

\* user code calls an operation of the API that accesses CALLBACKS; the
\* access ends with the call
CallRegistry ==
    /\ UserRunning
    /\ InBudget
    /\ cb_access = "busy"
    /\ cb_access' = "idle"
    /\ ops' = ops + 1

\* user_init() or the callback body returns: back to rx.recv()
UserReturn ==
    /\ UserRunning
    /\ cb_access = "idle"
    /\ upc' = "recv"
    /\ UNCHANGED <<ctrlVars, PROXY, SENDER, cmdVars, dispVars, viewVars, cbVars,
                   applied, invoked, ops, sideVars, histVars>>

\* C19 mutant: the closure of a view that is no longer in views is dropped
RunClosure_if_live(f, thread) ==
    IF dispatch_log[f.n].ord \notin DOMAIN views
    THEN UNCHANGED <<upc, invoked, faults>>
    ELSE IF ~Callback_get(f.cb_index)
    THEN UNCHANGED <<upc, invoked, faults>>
    ELSE /\ upc' = "callback"
         /\ invoked' = Append(invoked, [n |-> f.n, kind |-> f.kind,
                                        cb_index |-> f.cb_index,
                                        body |-> CALLBACKS[f.cb_index],
                                        thread |-> thread,
                                        behind |-> Len(dispatchq) > 1,
                                        live |-> TRUE])
         /\ UNCHANGED faults

\* the body of a dispatched closure, run by `callback()` of the receive loop;
\* the log of bodies called also keeps whether the view of the event was
\* still in views
RunClosure(f, thread) ==
    IF f.kind = "native" /\ ~Callback_get(f.cb_index)
    THEN UNCHANGED <<upc, invoked, faults>>
    ELSE IF Callback_invoke(f.cb_index) = "panic"
    THEN /\ upc' = "panicked"
         /\ faults' = faults \cup {Fault("user", "Callback::invoke", f.kind,
                                         f.cb_index, <<>>)}
         /\ UNCHANGED invoked
    ELSE /\ upc' = "callback"
         /\ UNCHANGED faults
         /\ invoked' = Append(invoked, [n |-> f.n, kind |-> f.kind,
                                        cb_index |-> f.cb_index,
                                        body |-> CALLBACKS[f.cb_index],
                                        thread |-> thread,
                                        behind |-> Len(dispatchq) > 1,
                                        live |-> dispatch_log[f.n].ord \in DOMAIN views])

\* C33 mutant: an invocation is taken from the channel while user_init() or
\* an earlier callback body is still running
UserRecv_reentrant ==
    /\ Alive
    /\ upc \in {"recv", "entry", "callback"}
    /\ dispatchq # <<>>
    /\ cb_access = "busy"
    /\ cb_access' = "idle"
    /\ dispatchq' = channel_recv(dispatchq).rest
    /\ RunClosure(channel_recv(dispatchq).item, "user")
    /\ UNCHANGED <<ctrlVars, PROXY, SENDER, cmdVars, dispatch_log, viewVars,
                   CALLBACKS, CALLBACK_ID_NEXT, cb_log, removed, applied, ops,
                   sideVars, evaluated, direct_log>>

\* while let Ok(callback) = rx.recv() { callback(); }
UserRecv ==
    /\ Alive
    /\ upc = "recv"
    /\ dispatchq # <<>>
    /\ cb_access = "busy"
    /\ cb_access' = "idle"
    /\ dispatchq' = channel_recv(dispatchq).rest
    /\ RunClosure(channel_recv(dispatchq).item, "user")
    /\ UNCHANGED <<ctrlVars, PROXY, SENDER, cmdVars, dispatch_log, viewVars,
                   CALLBACKS, CALLBACK_ID_NEXT, cb_log, removed, applied, ops,
                   sideVars, evaluated, direct_log>>

----------------------------------------------------------------------------
(* api.rs: what user code may call *)

\* C37 mutant: View::new takes its ord without advancing VIEW_ID_NEXT
ViewNew_same_ord ==
    /\ CallApi
    /\ LET ord == next_view_id.ret
       IN  /\ VIEW_ID_NEXT' = VIEW_ID_NEXT
           /\ cmdq' = send_event(cmdq, JoEvent(sent_count + 1, "CreateWebView", ord, "", 0))
           /\ VIEW_CUR' = add_cur_view(VIEW_CUR, ord)
           /\ new_ords' = Append(new_ords, ord)
    /\ sent_count' = sent_count + 1
    /\ UNCHANGED <<ctrlVars, userVars, dispVars, cbVars, applied, invoked, sideVars, histVars>>

\* View::new(spec)
ViewNew ==
    /\ CallApi
    /\ LET ord == next_view_id.ret
       IN  /\ VIEW_ID_NEXT' = next_view_id.next
           /\ cmdq' = send_event(cmdq, JoEvent(sent_count + 1, "CreateWebView", ord, "", 0))
           /\ VIEW_CUR' = add_cur_view(VIEW_CUR, ord)
           /\ new_ords' = Append(new_ords, ord)
    /\ sent_count' = sent_count + 1
    /\ UNCHANGED <<ctrlVars, userVars, dispVars, cbVars, applied, invoked, sideVars, histVars>>

\* the ords user code can address a script to: those of its View handles, and
\* any other through an agent made by Agent::from(notation), here the next
\* ord View::new has not handed out yet
ScriptOrds == Range(new_ords) \cup {VIEW_ID_NEXT}

\* View::eval(script), View::fill(model), Agent::set, set_style, unbind
ViewEval(ord) ==
    /\ CallApi
    /\ cmdq' = send_event(cmdq, EvalScript(sent_count + 1, ord,
                                            [NoScript EXCEPT !.form = "eval"]))
    /\ sent_count' = sent_count + 1
    /\ UNCHANGED <<ctrlVars, userVars, dispVars, viewVars, cbVars, applied, invoked, sideVars, histVars>>

\* C23 mutant: View::destroy also takes the view out of RtState.views itself
ViewDestroy_direct(ord) ==
    /\ CallApi
    /\ cmdq' = send_event(cmdq, JoEvent(sent_count + 1, "DestroyWebView", ord, "", 0))
    /\ sent_count' = sent_count + 1
    /\ views' = MapRemove(views, ord)
    /\ IF acquire(ord)
       THEN VIEW_CUR' = remove_cur_view(VIEW_CUR, ord) /\ UNCHANGED <<upc, faults>>
       ELSE /\ upc' = "panicked"
            /\ faults' = faults \cup {Fault("user", "remove_cur_view", "", ord, <<>>)}
            /\ UNCHANGED VIEW_CUR
    /\ UNCHANGED <<view_event_callback_map, view_wid_map, control_flow, ctrl, windows,
                   PROXY, SENDER, dispVars, VIEW_ID_NEXT, new_ords, cbVars,
                   applied, invoked, sideVars, evaluated, direct_log>>

\* View::destroy(): the command is sent, then remove_cur_view unwraps the
\* position of ord in VIEW_CUR
ViewDestroy(ord) ==
    /\ CallApi
    /\ cmdq' = send_event(cmdq, JoEvent(sent_count + 1, "DestroyWebView", ord, "", 0))
    /\ sent_count' = sent_count + 1
    /\ IF acquire(ord)
       THEN VIEW_CUR' = remove_cur_view(VIEW_CUR, ord) /\ UNCHANGED <<upc, faults>>
       ELSE /\ upc' = "panicked"
            /\ faults' = faults \cup {Fault("user", "remove_cur_view", "", ord, <<>>)}
            /\ UNCHANGED VIEW_CUR
    /\ UNCHANGED <<ctrlVars, PROXY, SENDER, dispVars, VIEW_ID_NEXT, new_ords, cbVars,
                   applied, invoked, sideVars, evaluated, direct_log>>

\* the closure the next Callback::create is called with
NewClosure == Closure(Len(cb_log) + 1)

\* the effects of Callback::create(f) on the registry
CreateCallback(body) ==
    /\ CALLBACK_ID_NEXT' = Callback_create.next
    /\ CALLBACKS' = MapInsert(CALLBACKS, Callback_create.id, body)
    /\ cb_log' = Append(cb_log, [id |-> Callback_create.id, body |-> body,
                                  freed |-> removed])

\* Callback::create(f)
CallbackCreate(body) ==
    /\ CallRegistry
    /\ CreateCallback(body)
    /\ UNCHANGED <<ctrlVars, userVars, cmdVars, dispVars, viewVars, removed, applied,
                   invoked, sideVars, histVars>>

\* C29 mutant: View::bind takes the callbacks bound to (ord, key) before
\* out of the registry
ViewBind_evict(ord, key, body) ==
    LET bound == {c.cb_index : c \in {e \in Range(applied) \cup Range(cmdq) :
                      e.type = "RegisterEvent" /\ e.ord = ord /\ e.key = key}}
    IN  /\ CallRegistry
        /\ CALLBACK_ID_NEXT' = Callback_create.next
        /\ CALLBACKS' = MapInsert([id \in DOMAIN CALLBACKS \ bound |-> CALLBACKS[id]],
                                  Callback_create.id, body)
        /\ cb_log' = Append(cb_log, [id |-> Callback_create.id, body |-> body,
                                      freed |-> removed])
        /\ cmdq' = send_event(cmdq, JoEvent(sent_count + 1, "RegisterEvent", ord, key,
                                            Callback_create.id))
        /\ sent_count' = sent_count + 1
        /\ UNCHANGED <<ctrlVars, userVars, dispVars, viewVars, removed, applied, invoked,
                       sideVars, histVars>>

\* View::bind(key, f): Callback::create, then RegisterEvent is sent
ViewBind(ord, key, body) ==
    /\ CallRegistry
    /\ CreateCallback(body)
    /\ cmdq' = send_event(cmdq, JoEvent(sent_count + 1, "RegisterEvent", ord, key,
                                        Callback_create.id))
    /\ sent_count' = sent_count + 1
    /\ UNCHANGED <<ctrlVars, userVars, dispVars, viewVars, removed, applied, invoked, sideVars, histVars>>

\* Callback::remove(self), on the handle returned by create or by get
CallbackRemove(id) ==
    /\ CallRegistry
    /\ CALLBACKS' = Callback_remove(CALLBACKS, id)
    /\ removed' = removed \cup {id}
    /\ UNCHANGED <<ctrlVars, userVars, cmdVars, dispVars, viewVars, CALLBACK_ID_NEXT,
                   cb_log, applied, invoked, sideVars, histVars>>

\* the agents user code binds closures to
BindAgents(ord) ==
    {root(ord), lookup(ord, <<"b">>), solve(root(ord), <<1>>)}

\* Agent::bind(key, f): Callback::create, then the registering script is sent
AgentBind(agent, body) ==
    /\ CallRegistry
    /\ CreateCallback(body)
    /\ cmdq' = send_event(cmdq, EvalScript(sent_count + 1, agent.ord,
                                            BindScript(agent, <<"c">>, Callback_create.id)))
    /\ sent_count' = sent_count + 1
    /\ UNCHANGED <<ctrlVars, userVars, dispVars, viewVars, removed, applied, invoked,
                   sideVars, histVars>>

\* Callback::invoke(&self, agent, detail) called by user code on a handle it
\* holds: the one create returned, or one Callback::get returned while the id
\* was stored
CallbackInvoke(id) ==
    /\ CallRegistry
    /\ IF Callback_invoke(id) = "panic"
       THEN /\ upc' = "panicked"
            /\ faults' = faults \cup {Fault("user", "Callback::invoke", "direct", id, <<>>)}
            /\ UNCHANGED direct_log
       ELSE /\ direct_log' = Append(direct_log, [id |-> id, body |-> CALLBACKS[id]])
            /\ UNCHANGED <<upc, faults>>
    /\ UNCHANGED <<ctrlVars, PROXY, SENDER, cmdVars, dispVars, viewVars, CALLBACKS,
                   CALLBACK_ID_NEXT, cb_log, removed, applied, invoked, sideVars,
                   evaluated>>

\* joestar_terminate()
Terminate ==
    /\ CallApi
    /\ cmdq' = send_event(cmdq, JoEvent(sent_count + 1, "Terminate", 0, "", 0))
    /\ sent_count' = sent_count + 1
    /\ UNCHANGED <<ctrlVars, userVars, dispVars, viewVars, cbVars, applied, invoked, sideVars, histVars>>

\* the operations a thread other than the user thread calls: View::new,
\* eval (fill, Agent set/set_style/unbind), destroy, bind (Agent::bind) and
\* joestar_terminate
ForeignOps == {"new", "eval", "destroy", "bind", "terminate"}

\* the command the operation sends through the proxy
ForeignCommand(op, ord) ==
    CASE op = "new" -> JoEvent(sent_count + 1, "CreateWebView", ord, "", 0)
      [] op = "eval" -> EvalScript(sent_count + 1, ord, [NoScript EXCEPT !.form = "eval"])
      [] op = "destroy" -> JoEvent(sent_count + 1, "DestroyWebView", ord, "", 0)
      [] op = "bind" -> JoEvent(sent_count + 1, "RegisterEvent", ord, "Resize",
                                Callback_create.id)
      [] OTHER -> JoEvent(sent_count + 1, "Terminate", 0, "", 0)

\* C24 mutant: the proxy is one static of the process, seen by every thread
proxy_shared(thread) == PROXY

\* PROXY is a thread_local: Some on the thread handle_user_launch spawned
\* once it has installed the proxy, None on every other thread
proxy_of(thread) == IF thread = "user" THEN PROXY ELSE FALSE

\* a thread user code has spawned calls an operation of the API, on a View
\* handle it was given or on none: bind calls Callback::create first, every
\* operation then unwraps the PROXY of the calling thread
ForeignCall(op, ord) ==
    /\ Alive
    /\ upc \in {"entry", "callback", "recv"}
    /\ InBudget
    /\ cb_access = "idle"
    /\ ops' = ops + 1
    /\ IF op \in {"eval", "destroy", "bind"} THEN ord \in Range(new_ords) ELSE ord = 0
    /\ IF op = "bind"
       THEN CreateCallback(NewClosure)
       ELSE UNCHANGED <<CALLBACKS, CALLBACK_ID_NEXT, cb_log>>
    /\ IF proxy_of("foreign")
       THEN /\ cmdq' = send_event(cmdq, ForeignCommand(op, ord))
            /\ sent_count' = sent_count + 1
            /\ UNCHANGED faults
       ELSE /\ faults' = faults \cup {Fault("foreign", "PROXY", op, ord, <<>>)}
            /\ UNCHANGED cmdVars
    /\ UNCHANGED <<ctrlVars, userVars, dispVars, viewVars, cb_access, removed, applied,
                   invoked, sideVars, evaluated, direct_log>>

----------------------------------------------------------------------------
(* The codec specification: Agent -> notation -> Agent *)

\* inputs of the codec specification
CodecOrds == {0, 1, MaxIndex}
CodecIds == {<<>>, <<"a">>, <<"b", "1">>}
CodecIndices == {0, 1, MaxIndex}
CodecPaths == UNION {[1..n -> CodecIndices] : n \in 0..MaxPathLen}
CodecAgents ==
    {Agent(o, "Path", <<>>, p) : o \in CodecOrds, p \in CodecPaths}
    \cup {Agent(o, "IdPath", i, p) : o \in CodecOrds, i \in CodecIds, p \in CodecPaths}

\* well-formed notations: every index is followed by a comma
RECURSIVE comma_terminated(_)
comma_terminated(texts) ==
    IF texts = <<>> THEN <<>>
    ELSE Head(texts) \o <<",">> \o comma_terminated(Tail(texts))

CodecTails ==
    {comma_terminated(ts) :
        ts \in UNION {[1..n -> {to_string(i) : i \in CodecIndices}] : n \in 0..MaxPathLen}}

CodecTexts ==
    {to_string(o) \o <<":">> \o tl : o \in CodecOrds, tl \in CodecTails}
    \cup {to_string(o) \o <<",">> \o i \o <<":">> \o tl :
             o \in CodecOrds, i \in CodecIds, tl \in CodecTails}

CodecOff == [mode |-> "off", stage |-> 0, a |-> PanicAgent, s |-> <<>>,
             r |-> PanicAgent, t |-> <<>>]

\* launch_runtime: UserLaunch is sent, then the event loop runs
InitMain ==
    /\ cmdq = <<JoEvent(1, "UserLaunch", 0, "", 0)>>
    /\ sent_count = 1
    /\ views = EmptyMap
    /\ view_event_callback_map = EmptyMap
    /\ view_wid_map = EmptyMap
    /\ control_flow = "Wait"
    /\ ctrl = "running"
    /\ windows = 0
    /\ upc = "unspawned"
    /\ PROXY = FALSE
    /\ SENDER = FALSE
    /\ dispatchq = <<>>
    /\ dispatch_log = <<>>
    /\ VIEW_ID_NEXT = 0
    /\ VIEW_CUR = <<>>
    /\ CALLBACKS = EmptyMap
    /\ CALLBACK_ID_NEXT = 0
    /\ cb_access = "idle"
    /\ applied = <<>>
    /\ invoked = <<>>
    /\ new_ords = <<>>
    /\ cb_log = <<>>
    /\ removed = {}
    /\ ops = 0
    /\ faults = {}
    /\ evaluated = {}
    /\ direct_log = <<>>

\* the launch specification and the pure functions are not running
LaunchOff == [pcs |-> <<>>, sender |-> 0, replaced |-> FALSE]
CalcOff == [mode |-> "off"]

Init == InitMain /\ codec = CodecOff /\ launch = LaunchOff /\ calc = CalcOff

Next ==
    \/ CtrlUserEvent
    \/ CtrlLoopDestroyed
    \/ \E k \in 0..windows, key \in ViewEventKeys :
          \E payload \in Payloads(key) : CtrlWindowEvent(WindowId(k), key, payload)
    \/ \E ord \in DOMAIN views : \E raw \in IpcInputs(ord) : CtrlIpc(ord, raw)
    \/ UserInstallProxy
    \/ UserInitSender
    \/ UserReturn
    \/ UserEnterRegistry
    \/ UserRecv
    \/ ViewNew
    \/ \E ord \in ScriptOrds : ViewEval(ord)
    \/ \E ord \in Range(new_ords) : ViewDestroy(ord)
    \/ CallbackCreate(NewClosure)
    \/ \E ord \in Range(new_ords), key \in ViewEventKeys : ViewBind(ord, key, NewClosure)
    \/ \E ord \in Range(new_ords) : \E agent \in BindAgents(ord) : AgentBind(agent, NewClosure)
    \/ \E e \in Range(cb_log) : CallbackRemove(e.id)
    \/ \E e \in Range(cb_log) : CallbackInvoke(e.id)
    \/ Terminate
    \/ \E op \in ForeignOps : \E ord \in Range(new_ords) \cup {0} : ForeignCall(op, ord)

Spec == Init /\ [][Next]_vars

mainVars == <<cmdq, views, view_event_callback_map, view_wid_map, control_flow, ctrl,
              windows, upc, PROXY, SENDER, dispatchq, VIEW_ID_NEXT, VIEW_CUR,
              CALLBACKS, CALLBACK_ID_NEXT, cb_access, sent_count, applied,
              dispatch_log, invoked, new_ords, cb_log, removed, ops, faults, evaluated,
              direct_log>>

InitCodec ==
    /\ InitMain
    /\ codec \in {[mode |-> "agent", stage |-> 0, a |-> x, s |-> <<>>,
                   r |-> PanicAgent, t |-> <<>>] : x \in CodecAgents}
               \cup {[mode |-> "text", stage |-> 0, a |-> PanicAgent, s |-> x,
                       r |-> PanicAgent, t |-> <<>>] : x \in CodecTexts}
    /\ launch = LaunchOff
    /\ calc = CalcOff

\* let notation: String = agent.into()
CodecEncode ==
    /\ codec.mode = "agent" /\ codec.stage = 0
    /\ codec' = [codec EXCEPT !.stage = 1, !.s = AgentInto(codec.a)]
    /\ UNCHANGED <<mainVars, launch, calc>>

\* Agent::from(notation)
CodecDecode ==
    /\ codec.mode = "agent" /\ codec.stage = 1
    /\ codec' = [codec EXCEPT !.stage = 2, !.r = AgentFrom(codec.s)]
    /\ UNCHANGED <<mainVars, launch, calc>>

\* Agent::from(s) for a notation s
TextDecode ==
    /\ codec.mode = "text" /\ codec.stage = 0
    /\ codec' = [codec EXCEPT !.stage = 1, !.r = AgentFrom(codec.s)]
    /\ UNCHANGED <<mainVars, launch, calc>>

\* the decoded agent is turned into its notation again
TextEncode ==
    /\ codec.mode = "text" /\ codec.stage = 1
    /\ codec.r # PanicAgent
    /\ codec' = [codec EXCEPT !.stage = 2, !.t = AgentInto(codec.r)]
    /\ UNCHANGED <<mainVars, launch, calc>>

NextCodec == CodecEncode \/ CodecDecode \/ TextDecode \/ TextEncode

SpecCodec == InitCodec /\ [][NextCodec]_vars

----------------------------------------------------------------------------
(* The markup specification: Models built with the builder methods of       *)
(* Model and serialized by html_string. calc.stack holds the Models under   *)
(* construction, the innermost last; calc.out the markup once exported.     *)

\* Option<String>
None == [some |-> FALSE, val |-> <<>>]
Some(v) == [some |-> TRUE, val |-> v]

\* Model::new(tag)
Model_new(tag) ==
    [tag |-> tag, id |-> None, attrs |-> EmptyMap, style |-> EmptyMap,
     text |-> None, children |-> <<>>]

\* the entries of a HashMap in the order its iterator yields them; the
\* maps built here have at most one entry
RECURSIVE entries(_)
entries(m) ==
    IF DOMAIN m = {} THEN <<>>
    ELSE LET k == CHOOSE x \in DOMAIN m : TRUE
         IN  <<[key |-> k, val |-> m[k]]>> \o entries(MapRemove(m, k))

\* attrs_string: key="val" and a space, per attribute
RECURSIVE attrs_join(_)
attrs_join(es) ==
    IF es = <<>> THEN <<>>
    ELSE Head(es).key \o <<"=", "\"">> \o Head(es).val \o <<"\"", " ">>
         \o attrs_join(Tail(es))

attrs_string(attrs) == attrs_join(entries(attrs))

\* style_string: "key: val; " per style
RECURSIVE style_join(_)
style_join(es) ==
    IF es = <<>> THEN <<>>
    ELSE Head(es).key \o <<":", " ">> \o Head(es).val \o <<";", " ">>
         \o style_join(Tail(es))

style_string(style) == style_join(entries(style))

RECURSIVE html_string(_), html_children(_), html_string_text_last(_)

\* for child in &model.children { result.push_str(&html_string(child)) }
html_children(cs) ==
    IF cs = <<>> THEN <<>> ELSE html_string(Head(cs)) \o html_children(Tail(cs))

\* C27 mutant: the text is pushed after the children
html_string_text_last(model) ==
    <<"<">> \o model.tag
    \o (IF model.id.some THEN <<" ", "i", "d", "=", "\"">> \o model.id.val \o <<"\"">>
        ELSE <<>>)
    \o (IF DOMAIN model.attrs # {} THEN <<" ">> \o attrs_string(model.attrs) ELSE <<>>)
    \o (IF DOMAIN model.style # {}
        THEN <<" ", "s", "t", "y", "l", "e", "=", "\"">> \o style_string(model.style)
             \o <<"\"">>
        ELSE <<>>)
    \o <<">">>
    \o html_children(model.children)
    \o (IF model.text.some THEN model.text.val ELSE <<>>)
    \o <<"<", "/">> \o model.tag \o <<">">>

\* html_string(model)
html_string(model) ==
    <<"<">> \o model.tag
    \o (IF model.id.some THEN <<" ", "i", "d", "=", "\"">> \o model.id.val \o <<"\"">>
        ELSE <<>>)
    \o (IF DOMAIN model.attrs # {} THEN <<" ">> \o attrs_string(model.attrs) ELSE <<>>)
    \o (IF DOMAIN model.style # {}
        THEN <<" ", "s", "t", "y", "l", "e", "=", "\"">> \o style_string(model.style)
             \o <<"\"">>
        ELSE <<>>)
    \o <<">">>
    \o (IF model.text.some THEN model.text.val ELSE <<>>)
    \o html_children(model.children)
    \o <<"<", "/">> \o model.tag \o <<">">>

\* inputs of the markup specification
MarkupTags == {<<"d", "i", "v">>, <<"p">>}
MarkupIds == {<<"a">>}
MarkupTexts == {<<"x">>}

RECURSIVE size(_), size_all(_)
\* the number of elements of a Model
size(model) == 1 + size_all(model.children)
size_all(ms) == IF ms = <<>> THEN 0 ELSE size(Head(ms)) + size_all(Tail(ms))

RECURSIVE plain(_), plain_all(_)
\* the Model has no attributes and no styles, nor has an element below it
plain(model) ==
    DOMAIN model.attrs = {} /\ DOMAIN model.style = {} /\ plain_all(model.children)
plain_all(ms) == IF ms = <<>> THEN TRUE ELSE plain(Head(ms)) /\ plain_all(Tail(ms))

\* the Model being built: the last of the stack
Top == calc.stack[Len(calc.stack)]
SetTop(model) == [calc EXCEPT !.stack[Len(calc.stack)] = model]

InitMarkup ==
    /\ InitMain
    /\ codec = CodecOff
    /\ launch = LaunchOff
    /\ calc = [mode |-> "markup", stack |-> <<>>, out |-> None]

Building == calc.mode = "markup" /\ ~calc.out.some

\* Model::new(tag), as the receiver of the chain or as the argument of child
MarkupNew(tag) ==
    /\ Building
    /\ size_all(calc.stack) < MaxElements
    /\ calc' = [calc EXCEPT !.stack = Append(@, Model_new(tag))]
    /\ UNCHANGED <<mainVars, codec, launch>>

\* .id(id)
MarkupId(id) ==
    /\ Building /\ calc.stack # <<>>
    /\ ~Top.id.some
    /\ calc' = SetTop([Top EXCEPT !.id = Some(id)])
    /\ UNCHANGED <<mainVars, codec, launch>>

\* .text(text)
MarkupText(text) ==
    /\ Building /\ calc.stack # <<>>
    /\ ~Top.text.some
    /\ calc' = SetTop([Top EXCEPT !.text = Some(text)])
    /\ UNCHANGED <<mainVars, codec, launch>>

\* .attr("k", "v") or .style("c", "r"): one of the two, on one element of
\* the input at most
MarkupAttr ==
    /\ Building /\ calc.stack # <<>>
    /\ plain_all(calc.stack)
    /\ calc' = SetTop([Top EXCEPT !.attrs = MapInsert(@, <<"k">>, <<"v">>)])
    /\ UNCHANGED <<mainVars, codec, launch>>

MarkupStyle ==
    /\ Building /\ calc.stack # <<>>
    /\ plain_all(calc.stack)
    /\ calc' = SetTop([Top EXCEPT !.style = MapInsert(@, <<"c">>, <<"r">>)])
    /\ UNCHANGED <<mainVars, codec, launch>>

\* .child(model): the Model built last becomes the last child of the one
\* before it
MarkupChild ==
    /\ Building /\ Len(calc.stack) >= 2
    /\ LET parent == calc.stack[Len(calc.stack) - 1]
       IN  calc' = [calc EXCEPT !.stack =
                        Append(SubSeq(calc.stack, 1, Len(calc.stack) - 2),
                               [parent EXCEPT !.children = Append(@, Top)])]
    /\ UNCHANGED <<mainVars, codec, launch>>

\* export_markup(): html_string(self)
MarkupExport ==
    /\ Building /\ Len(calc.stack) = 1
    /\ calc' = [calc EXCEPT !.out = Some(html_string(Top))]
    /\ UNCHANGED <<mainVars, codec, launch>>

NextMarkup ==
    \/ \E tag \in MarkupTags : MarkupNew(tag)
    \/ \E id \in MarkupIds : MarkupId(id)
    \/ \E text \in MarkupTexts : MarkupText(text)
    \/ MarkupAttr
    \/ MarkupStyle
    \/ MarkupChild
    \/ MarkupExport

SpecMarkup == InitMarkup /\ [][NextMarkup]_vars

----------------------------------------------------------------------------
(* The solve specification: Agent::solve applied to an agent a and paths p, *)
(* q: calc.r1 = a.solve(p), calc.r2 = a.solve(p).solve(q),                  *)
(* calc.r3 = a.solve(p ++ q), calc.r4 = a.solve([]).                        *)

\* inputs of the solve specification
SolveOrds == {0, 1}
SolveIds == {<<"a">>}
SolvePaths == UNION {[1..n -> {0, MaxIndex}] : n \in 0..MaxPathLen}
SolveAgents ==
    {solve(root(o), p) : o \in SolveOrds, p \in SolvePaths}
    \cup {solve(lookup(o, i), p) : o \in SolveOrds, i \in SolveIds, p \in SolvePaths}

InitSolve ==
    /\ InitMain
    /\ codec = CodecOff
    /\ launch = LaunchOff
    /\ calc \in {[mode |-> "solve", stage |-> 0, a |-> a, p |-> p, q |-> q,
                   r1 |-> PanicAgent, r2 |-> PanicAgent, r3 |-> PanicAgent,
                   r4 |-> PanicAgent] : a \in SolveAgents, p \in SolvePaths, q \in SolvePaths}

\* a.solve(p)
SolveFirst ==
    /\ calc.mode = "solve" /\ calc.stage = 0
    /\ calc' = [calc EXCEPT !.stage = 1, !.r1 = solve(calc.a, calc.p)]
    /\ UNCHANGED <<mainVars, codec, launch>>

\* a.solve(p).solve(q)
SolveSecond ==
    /\ calc.mode = "solve" /\ calc.stage = 1
    /\ calc' = [calc EXCEPT !.stage = 2, !.r2 = solve(calc.r1, calc.q)]
    /\ UNCHANGED <<mainVars, codec, launch>>

\* a.solve([p, q].concat())
SolveJoined ==
    /\ calc.mode = "solve" /\ calc.stage = 2
    /\ calc' = [calc EXCEPT !.stage = 3, !.r3 = solve(calc.a, calc.p \o calc.q)]
    /\ UNCHANGED <<mainVars, codec, launch>>

\* a.solve(vec![])
SolveEmpty ==
    /\ calc.mode = "solve" /\ calc.stage = 3
    /\ calc' = [calc EXCEPT !.stage = 4, !.r4 = solve(calc.a, <<>>)]
    /\ UNCHANGED <<mainVars, codec, launch>>

NextSolve == SolveFirst \/ SolveSecond \/ SolveJoined \/ SolveEmpty

SpecSolve == InitSolve /\ [][NextSolve]_vars

----------------------------------------------------------------------------
(* The wire specification: the message of a detail map, given as its        *)
(* key/value pairs in the order the page writes them, is put in the wire    *)
(* form and decoded by the IPC handler. calc.raw is the message, calc.d     *)
(* what ipc_decode makes of it.                                             *)

\* inputs of the wire specification: the keys are distinct
WireKeys == {<<"k">>, <<"j">>, <<"h">>}
WireValues == {<<>>, <<"7">>, <<"a", " ", "b">>}
WireIds == {0, MaxIndex}
WirePairs ==
    {ps \in UNION {[1..n -> [key : WireKeys, val : WireValues]] : n \in 0..MaxPairs} :
        \A i, j \in DOMAIN ps : i # j => ps[i].key # ps[j].key}

\* the lines key, value, key, value ... of the pairs
RECURSIVE pair_lines(_)
pair_lines(ps) ==
    IF ps = <<>> THEN <<>> ELSE <<Head(ps).key, Head(ps).val>> \o pair_lines(Tail(ps))

InitWire ==
    /\ InitMain
    /\ codec = CodecOff
    /\ launch = LaunchOff
    /\ calc \in {[mode |-> "wire", stage |-> 0, agent |-> lookup(0, <<"b">>), id |-> c,
                   pairs |-> ps, raw |-> <<>>,
                   d |-> [ok |-> FALSE, agent |-> PanicAgent, cb_index |-> 0,
                          detail |-> EmptyMap]] : c \in WireIds, ps \in WirePairs}

\* the page posts "<agent>>>><id>\n<k1>\n<v1>..."
WireEncode ==
    /\ calc.mode = "wire" /\ calc.stage = 0
    /\ calc' = [calc EXCEPT !.stage = 1,
                            !.raw = wire(AgentInto(calc.agent), to_string(calc.id),
                                         pair_lines(calc.pairs))]
    /\ UNCHANGED <<mainVars, codec, launch>>

\* the IPC handler decodes the message
WireDecode ==
    /\ calc.mode = "wire" /\ calc.stage = 1
    /\ calc' = [calc EXCEPT !.stage = 2, !.d = ipc_decode(calc.raw)]
    /\ UNCHANGED <<mainVars, codec, launch>>

NextWire == WireEncode \/ WireDecode

SpecWire == InitWire /\ [][NextWire]_vars

----------------------------------------------------------------------------
(* The launch specification: handle_user_launch each time the event loop    *)
(* of a launch_runtime call delivers UserLaunch. launch.pcs[t] is the       *)
(* position of the t-th thread spawned, launch.sender the thread whose tx   *)
(* the static SENDER holds (0: None), launch.replaced whether init_sender   *)
(* has overwritten a sender that was installed.                             *)

InitLaunch ==
    /\ InitMain
    /\ codec = CodecOff
    /\ calc = CalcOff
    /\ launch = LaunchOff

\* handle_user_launch: thread::spawn, whatever threads exist
LaunchSpawn ==
    /\ Len(launch.pcs) < MaxLaunch
    /\ launch' = [launch EXCEPT !.pcs = Append(@, "spawned")]
    /\ UNCHANGED <<mainVars, codec, calc>>

\* thread t: PROXY.with(|p| *p.borrow_mut() = Some(proxy))
LaunchInstallProxy(t) ==
    /\ launch.pcs[t] = "spawned"
    /\ launch' = [launch EXCEPT !.pcs[t] = "proxy_set"]
    /\ UNCHANGED <<mainVars, codec, calc>>

\* thread t: init_sender(tx): SENDER = Some(sender), the sender that was
\* there is dropped; then user_init() starts
LaunchInitSender(t) ==
    /\ launch.pcs[t] = "proxy_set"
    /\ launch' = [pcs |-> [launch.pcs EXCEPT ![t] = "entry"],
                  sender |-> t,
                  replaced |-> launch.replaced \/ launch.sender # 0]
    /\ UNCHANGED <<mainVars, codec, calc>>

\* thread t: user_init() returns, the thread waits in rx.recv()
LaunchReturn(t) ==
    /\ launch.pcs[t] = "entry"
    /\ launch' = [launch EXCEPT !.pcs[t] = "recv"]
    /\ UNCHANGED <<mainVars, codec, calc>>

\* thread t: rx.recv() is Err once the sender of its channel was dropped:
\* the receive loop ends and the thread returns
LaunchDisconnected(t) ==
    /\ launch.pcs[t] = "recv"
    /\ launch.sender # t
    /\ launch' = [launch EXCEPT !.pcs[t] = "returned"]
    /\ UNCHANGED <<mainVars, codec, calc>>

NextLaunch ==
    \/ LaunchSpawn
    \/ \E t \in DOMAIN launch.pcs : LaunchInstallProxy(t)
    \/ \E t \in DOMAIN launch.pcs : LaunchInitSender(t)
    \/ \E t \in DOMAIN launch.pcs : LaunchReturn(t)
    \/ \E t \in DOMAIN launch.pcs : LaunchDisconnected(t)

SpecLaunch == InitLaunch /\ [][NextLaunch]_vars

----------------------------------------------------------------------------
(* Properties *)

\* C1: every callback body, of a native window event or of an inbound IPC
\* message, is executed by the user thread; the controller thread only
\* enqueues the invocation and calls no stored closure itself.
BodiesRunOnUserThread == \A i \in DOMAIN invoked : invoked[i].thread = "user"

\* C1 witness: a body dispatched by a native event and a body dispatched by
\* an IPC message have both run.
BothKindsInvoked ==
    /\ \E i \in DOMAIN invoked : invoked[i].kind = "native"
    /\ \E i \in DOMAIN invoked : invoked[i].kind = "ipc"

\* C2: invocations run on the user thread in the order the controller
\* enqueued them on the dispatch queue.
DispatchOrder ==
    /\ \A i, j \in DOMAIN invoked : i < j => invoked[i].n < invoked[j].n
    /\ \A i, j \in DOMAIN dispatchq : i < j => dispatchq[i].n < dispatchq[j].n
    /\ \A i \in DOMAIN invoked, j \in DOMAIN dispatchq : invoked[i].n < dispatchq[j].n

\* C2 witness: A ran while B was queued behind it, and B ran after it.
QueuedPairInvoked ==
    \E i \in DOMAIN invoked : invoked[i].behind /\ i < Len(invoked)

\* C3: the controller applies the commands in exactly the order they were
\* sent; Terminate is applied only after every command sent before it.
CommandsAppliedInSendOrder == \A i \in DOMAIN applied : applied[i].n = i

\* C3 witness: Terminate was applied after at least two earlier commands.
TerminateAppliedLast ==
    /\ Len(applied) >= 3
    /\ applied[Len(applied)].type = "Terminate"

\* a queued command that was sent before any Terminate
SentBeforeTerminate(c) ==
    \A d \in Range(applied) \cup Range(cmdq) : d.type = "Terminate" => c.n < d.n

\* C4: no command is dropped: the controller never stops for good while a
\* command sent before Terminate is still waiting to be consumed.
NoCommandDropped ==
    ctrl = "panicked" => \A i \in DOMAIN cmdq : ~SentBeforeTerminate(cmdq[i])

\* C5: a native event of a kind on a view dispatches the callback id of the
\* latest RegisterEvent processed for that (view, kind) pair, and no other.
LatestRegistrationFires ==
    \A k \in DOMAIN dispatch_log :
        dispatch_log[k].kind = "native" =>
            /\ dispatch_log[k].registered # <<>>
            /\ dispatch_log[k].cb_index =
                   dispatch_log[k].registered[Len(dispatch_log[k].registered)]

\* C5 witness: an event was dispatched after the pair was registered twice.
DispatchedAfterReRegistration ==
    \E k \in DOMAIN dispatch_log :
        /\ dispatch_log[k].kind = "native"
        /\ Len(dispatch_log[k].registered) = 2
        /\ dispatch_log[k].registered[1] # dispatch_log[k].cb_index

\* C6: every View::new returns an ord greater than every ord returned
\* before, also after earlier views were destroyed.
OrdsStrictlyIncreasing ==
    \A i, j \in DOMAIN new_ords : i < j => new_ords[i] < new_ords[j]

\* C6 witness: a view was created after an earlier one was destroyed.
CreatedAfterDestroy ==
    \E c, d \in Range(applied) \cup Range(cmdq) :
        /\ c.type = "DestroyWebView"
        /\ d.type = "CreateWebView"
        /\ c.n < d.n

\* C7: every Callback::create returns an id greater than every id returned
\* before, and no id is ever associated with two different closures.
CallbackIdsStrictlyIncreasing ==
    /\ \A i, j \in DOMAIN cb_log : i < j => cb_log[i].id < cb_log[j].id
    /\ \A i, j \in DOMAIN cb_log :
           cb_log[i].id = cb_log[j].id => cb_log[i].body = cb_log[j].body

\* C7 witness: a callback was created after another one was removed.
CreatedAfterRemove == \E i \in DOMAIN cb_log : cb_log[i].freed # {}

\* C8: decoding the notation of an agent yields the agent again.
RoundTripFromAgent ==
    (codec.mode = "agent" /\ codec.stage = 2) => codec.r = codec.a

\* C9: decoding a well-formed notation succeeds, and encoding the result
\* yields the notation again.
RoundTripFromText ==
    /\ (codec.mode = "text" /\ codec.stage >= 1) => codec.r # PanicAgent
    /\ (codec.mode = "text" /\ codec.stage = 2) => codec.t = codec.s

CreatedIds == {cb_log[i].id : i \in DOMAIN cb_log}

\* C10: Callback::get(id) succeeds exactly for the ids created and not yet
\* removed.
GetIffStored ==
    \A id \in 0..MaxSteps : Callback_get(id) <=> id \in CreatedIds \ removed

\* C10 witness: one callback was removed and get fails for it, another one
\* is still stored.
RemovedAndLive ==
    /\ \E id \in CreatedIds \cap removed : ~Callback_get(id)
    /\ \E id \in CreatedIds \ removed : Callback_get(id)

\* C11: Callback::invoke on a handle whose id is no longer in the registry is
\* a no-op: user code that calls it raises no error.
InvokeOnRemovedIsNoOp ==
    \A f \in faults : ~(f.cause = "Callback::invoke" /\ f.kind = "direct")

\* C12: a missing callback is ignored end to end: no dispatched invocation,
\* of a native event or of an IPC message, fails a thread because its
\* callback id is absent when it runs.
MissingCallbackIgnored ==
    \A f \in faults : ~(f.cause = "Callback::invoke" /\ f.kind \in {"native", "ipc"})

\* CreateWebView(ord) was applied among the first k commands
CreatedBefore(ord, k) ==
    \E j \in 1..k : applied[j].type = "CreateWebView" /\ applied[j].ord = ord

\* DestroyWebView(ord) was applied among the first k commands
DestroyedBefore(ord, k) ==
    \E j \in 1..k : applied[j].type = "DestroyWebView" /\ applied[j].ord = ord

\* C13: an EvalScript processed for an ord whose view was destroyed, or was
\* never created, is fatal: its script is not run and the controller stops
\* with the panic of the failed lookup.
UnknownViewEvalIsFatal ==
    \A i \in DOMAIN applied :
        (/\ applied[i].type = "EvalScript"
         /\ (DestroyedBefore(applied[i].ord, i - 1) \/ ~CreatedBefore(applied[i].ord, i - 1)))
        => /\ applied[i] \notin evaluated
           /\ i = Len(applied)
           /\ ctrl = "panicked"
           /\ Fault("controller", "EvalScript", "", applied[i].ord, <<>>) \in faults

\* C13 witness: a script was sent through a stale handle, for a view that
\* had been created and destroyed, and the controller stopped on it.
EvalAfterDestroyFailed ==
    /\ applied # <<>>
    /\ applied[Len(applied)].type = "EvalScript"
    /\ DestroyedBefore(applied[Len(applied)].ord, Len(applied) - 1)
    /\ CreatedBefore(applied[Len(applied)].ord, Len(applied) - 1)
    /\ ctrl = "panicked"

\* C14: processing DestroyWebView for an ord that is not in views is fatal and
\* leaves views, view_event_callback_map and view_wid_map as they were.
UnknownViewDestroyIsFatal ==
    [][(/\ cmdq # <<>>
        /\ applied' = Append(applied, Head(cmdq))
        /\ Head(cmdq).type = "DestroyWebView"
        /\ Head(cmdq).ord \notin DOMAIN views)
       => /\ ctrl' = "panicked"
          /\ Fault("controller", "DestroyWebView", "", Head(cmdq).ord, <<>>) \in faults'
          /\ UNCHANGED <<views, view_event_callback_map, view_wid_map>>]_vars

\* C14 witness: destroy was called on two clones of one handle; the second
\* command stopped the controller, and the view it named had been destroyed.
SecondDestroyFailed ==
    /\ applied # <<>>
    /\ applied[Len(applied)].type = "DestroyWebView"
    /\ DestroyedBefore(applied[Len(applied)].ord, Len(applied) - 1)
    /\ Fault("controller", "DestroyWebView", "", applied[Len(applied)].ord, <<>>) \in faults
    /\ applied[Len(applied)].ord \notin DOMAIN views

\* C15: once DestroyWebView(ord) is processed, a native window event of that
\* view's window dispatches nothing: every native dispatch is for a view that
\* is in views.
NoNativeDispatchAfterDestroy ==
    \A k \in DOMAIN dispatch_log :
        dispatch_log[k].kind = "native" => dispatch_log[k].live

\* C16: a malformed IPC message is dropped: the controller does not fail on it.
MalformedIpcDropped ==
    \A f \in faults : f.cause = "ipc" => f.raw \notin MalformedMessages(f.id)

\* C17: when the page posts the message of a listener Agent::bind registered
\* and the callback is stored, the closure is queued once, with the agent it
\* was bound to and the detail map of the message's pairs.
BoundMessageInvokesClosure ==
    [][\A ord \in DOMAIN views : \A l \in Listeners(ord) :
          (CtrlIpc(ord, ListenerMessage(l)) /\ Callback_get(l.id))
          => dispatchq' = Append(dispatchq,
                 Invocation(Len(dispatch_log) + 1, "ipc", l.id, l.agent,
                            detail_map(EventLines, EmptyMap)))]_vars

\* the detail map C18 states for a native event
StatedDetail(key, payload) ==
    CASE key = "Resize" ->
            [x \in {WidthKey, HeightKey} |->
                IF x = WidthKey THEN to_string(payload[1]) ELSE to_string(payload[2])]
      [] key = "Move" ->
            [x \in {XKey, YKey} |->
                IF x = XKey THEN to_string(payload[1]) ELSE to_string(payload[2])]
      [] OTHER -> [x \in {} |-> <<>>]

\* a callback is registered for the view of the window and the kind of event
RegisteredFor(window_id, key) ==
    /\ window_id \in DOMAIN view_wid_map
    /\ Registered(view_wid_map[window_id], key) # <<>>

\* C18: a native window event leaves the controller's three maps as they are;
\* it dispatches only if a callback is registered for (ord of the window,
\* kind), and then that callback with a detail map of exactly width and height
\* (resize), x and y (move) or nothing (close request); for an unknown window
\* or an unregistered kind nothing changes.
NativeEventTranslation ==
    [][\A k \in 0..windows, key \in ViewEventKeys : \A payload \in Payloads(key) :
          CtrlWindowEvent(WindowId(k), key, payload)
          => /\ UNCHANGED <<views, view_event_callback_map, view_wid_map>>
             /\ ~RegisteredFor(WindowId(k), key)
                    => UNCHANGED <<dispatchq, dispatch_log, ctrl, faults>>
             /\ dispatchq' # dispatchq
                    => /\ RegisteredFor(WindowId(k), key)
                       /\ dispatchq' = Append(dispatchq,
                              Invocation(Len(dispatch_log) + 1, "native",
                                         view_event_callback_map[view_wid_map[WindowId(k)]][key],
                                         invalid, StatedDetail(key, payload)))]_vars

\* C18 witness: a resize of a view with a registered callback is queued with
\* its width and height.
ResizeDispatched ==
    \E i \in DOMAIN dispatchq :
        /\ dispatchq[i].kind = "native"
        /\ dispatch_log[dispatchq[i].n].key = "Resize"
        /\ DOMAIN dispatchq[i].detail = {WidthKey, HeightKey}

\* C19: a queued invocation leaves the dispatch queue only when the user
\* thread receives it, also when its view is destroyed meanwhile, and when it
\* is received while its callback id is stored, its body is run then.
DestroyCancelsNoInvocation ==
    [][dispatchq' # dispatchq
       => \/ /\ Len(dispatchq') = Len(dispatchq) + 1
             /\ SubSeq(dispatchq', 1, Len(dispatchq)) = dispatchq
          \/ /\ upc = "recv"
             /\ dispatchq # <<>>
             /\ dispatchq' = Tail(dispatchq)
             /\ Callback_get(Head(dispatchq).cb_index)
                    => /\ Len(invoked') = Len(invoked) + 1
                       /\ invoked'[Len(invoked')].n = Head(dispatchq).n
                       /\ invoked'[Len(invoked')].cb_index = Head(dispatchq).cb_index
                       /\ invoked'[Len(invoked')].thread = "user"]_vars

\* C19 witness: an invocation was queued while its view was in views and its
\* body ran after the view was destroyed.
RanAfterViewDestroyed ==
    \E i \in DOMAIN invoked :
        dispatch_log[invoked[i].n].live /\ ~invoked[i].live

\* the user threads spawned so far: one per UserLaunch processed
UserThreads == Cardinality({i \in DOMAIN applied : applied[i].type = "UserLaunch"})

\* C20: processing Launch spawns the one user thread, which installs the
\* proxy, then the sender of the dispatch channel, then calls entry(); there
\* is never a second user thread, and Launch is the first command processed.
LaunchOrder ==
    /\ UserThreads <= 1
    /\ applied # <<>> => applied[1].type = "UserLaunch"
    /\ upc = "unspawned" <=> UserThreads = 0
    /\ upc \in {"unspawned", "spawned"} => ~PROXY /\ ~SENDER
    /\ upc = "proxy_set" => PROXY /\ ~SENDER
    /\ upc \notin {"unspawned", "spawned", "proxy_set"} => PROXY /\ SENDER
    /\ ops > 0 => PROXY /\ SENDER

\* C20 witness: entry() is running on the user thread and has called the API.
EntryRunning ==
    /\ UserThreads = 1
    /\ upc = "entry"
    /\ ops > 0
    /\ PROXY /\ SENDER

\* C21: processing UserLaunch when a user thread already exists spawns no
\* second user thread and does not replace the installed dispatch sender
DoubleLaunchIsFatal ==
    /\ Len(launch.pcs) <= 1
    /\ ~launch.replaced

\* C22: access to the callback registry is synchronized: the controller's
\* Callback::get on an inbound IPC message never happens while the user
\* thread is inside create, remove, get or invoke.
RegistryAccessSynchronized ==
    [][\A ord \in DOMAIN views : \A raw \in IpcInputs(ord) :
          (CtrlIpc(ord, raw) /\ ipc_decode(raw).ok) => cb_access = "idle"]_vars

\* C23: views, view_event_callback_map and view_wid_map change only in a
\* step in which the controller consumes a command; a call of the API on the
\* user thread leaves the three maps as they are, and one that sends a
\* command only appends it to the command queue.
RuntimeStateOwnedByController ==
    [][/\ ops' # ops => UNCHANGED <<views, view_event_callback_map, view_wid_map>>
       /\ sent_count' # sent_count
              => /\ Len(cmdq') = Len(cmdq) + 1
                 /\ SubSeq(cmdq', 1, Len(cmdq)) = cmdq
                 /\ applied' = applied
       /\ <<views, view_event_callback_map, view_wid_map>>'
              # <<views, view_event_callback_map, view_wid_map>>
              => /\ cmdq # <<>>
                 /\ applied' = Append(applied, Head(cmdq))
                 /\ ops' = ops]_vars

\* C23 witness: destroy was called on a view and the view is still in views,
\* its command waiting in the queue.
DestroyQueuedViewPresent ==
    \E i \in DOMAIN cmdq :
        /\ cmdq[i].type = "DestroyWebView"
        /\ cmdq[i].ord \in DOMAIN views
        /\ ~acquire(cmdq[i].ord)

\* C24: an operation that submits a command, called on a thread other than
\* the user thread, fails on the missing proxy of that thread and enqueues
\* no command; the controller's maps stay as they are.
ForeignCallsFail ==
    [][\A op \in ForeignOps : \A ord \in Range(new_ords) \cup {0} :
          ForeignCall(op, ord)
          => /\ Fault("foreign", "PROXY", op, ord, <<>>) \in faults'
             /\ UNCHANGED <<cmdq, sent_count, applied>>
             /\ UNCHANGED <<views, view_event_callback_map, view_wid_map>>]_vars

\* C24 witness: another thread called bind on the handle of a view and
\* failed; no RegisterEvent was ever sent, and the user thread goes on.
ForeignBindFailed ==
    /\ \E f \in faults : f.thread = "foreign" /\ f.kind = "bind"
    /\ \A c \in Range(applied) \cup Range(cmdq) : c.type # "RegisterEvent"
    /\ upc \in {"entry", "callback", "recv"}
    /\ ctrl = "running"

\* C25: once the controller has processed Terminate the control flow of the
\* loop is Exit and stays Exit, and from then on no step processes a command,
\* changes views, view_event_callback_map or view_wid_map, or dispatches a
\* callback.
TerminateEndsLoop ==
    /\ []((\E i \in DOMAIN applied : applied[i].type = "Terminate")
              => control_flow = "Exit")
    /\ [][control_flow = "Exit"
            => /\ control_flow' = "Exit"
               /\ UNCHANGED <<views, view_event_callback_map, view_wid_map>>
               /\ UNCHANGED <<applied, dispatchq, dispatch_log>>]_vars

\* C25 witness: the loop has ended on Terminate while a command sent after
\* it is still queued and a view with a registered callback is in views.
EndedWithWorkLeft ==
    /\ ctrl = "exited"
    /\ control_flow = "Exit"
    /\ cmdq # <<>>
    /\ \E ord \in DOMAIN views : view_event_callback_map[ord] # EmptyMap

\* View::destroy has been called on a handle of ord on the user thread
DestroyCalled(ord) ==
    \E c \in Range(applied) \cup Range(cmdq) : c.type = "DestroyWebView" /\ c.ord = ord

\* C26: on the user thread View::acquire(id) returns a handle exactly when
\* View::new has returned id and destroy has not been called for it,
\* whatever creations and destructions came before.
AcquireIffLive ==
    \A id \in 0..MaxSteps :
        acquire(id) <=> (id \in Range(new_ords) /\ ~DestroyCalled(id))

\* C26 witness: of two views the older was destroyed and the newer is still
\* acquired.
OlderDestroyedNewerLive ==
    \E a, b \in Range(new_ords) : a < b /\ DestroyCalled(a) /\ ~acquire(a) /\ acquire(b)

RECURSIVE Serialized(_), SerializedAll(_)
\* the markup C27 states for an element
Serialized(e) ==
    <<"<">> \o e.tag
    \o (IF e.id.some THEN <<" ", "i", "d", "=", "\"">> \o e.id.val \o <<"\"">> ELSE <<>>)
    \o <<">">>
    \o (IF e.text.some THEN e.text.val ELSE <<>>)
    \o SerializedAll(e.children)
    \o <<"<", "/">> \o e.tag \o <<">">>
SerializedAll(es) ==
    IF es = <<>> THEN <<>> ELSE Serialized(Head(es)) \o SerializedAll(Tail(es))

\* div with the one child p with text x
DivWithP ==
    [Model_new(<<"d", "i", "v">>) EXCEPT
        !.children = <<[Model_new(<<"p">>) EXCEPT !.text = Some(<<"x">>)]>>]

\* C27: the markup of an element tree without attributes and styles is
\* "<tag", then ' id="..."' if it has an id, then ">", its text, the markup of
\* its children in order, and "</tag>"; div with child p with text x gives
\* "<div><p>x</p></div>".
SerializationIsStructural ==
    (calc.mode = "markup" /\ calc.out.some)
        => /\ plain(Top) => calc.out.val = Serialized(Top)
           /\ Top = DivWithP
                  => calc.out.val = <<"<", "d", "i", "v", ">", "<", "p", ">", "x",
                                      "<", "/", "p", ">", "<", "/", "d", "i", "v", ">">>

\* C27 witness: an element with an id, a text and two children was
\* serialized.
ParentOfTwoSerialized ==
    /\ calc.mode = "markup" /\ calc.out.some
    /\ plain(Top)
    /\ Top.id.some /\ Top.text.some
    /\ Len(Top.children) = 2

\* C28: processing CreateWebView(ord) puts ord in views, maps the id of the
\* window built for it to ord in view_wid_map, and makes
\* view_event_callback_map[ord] the empty map; the entries of every other
\* ord and window in the three maps stay as they were.
CreateViewEffects ==
    [][(/\ cmdq # <<>>
        /\ applied' = Append(applied, Head(cmdq))
        /\ Head(cmdq).type = "CreateWebView")
       => LET ord == Head(cmdq).ord
          IN  /\ DOMAIN views' = DOMAIN views \cup {ord}
              /\ \A o \in DOMAIN views \ {ord} : views'[o] = views[o]
              /\ DOMAIN view_event_callback_map' = DOMAIN view_event_callback_map \cup {ord}
              /\ view_event_callback_map'[ord] = EmptyMap
              /\ \A o \in DOMAIN view_event_callback_map \ {ord} :
                     view_event_callback_map'[o] = view_event_callback_map[o]
              /\ \E w \in DOMAIN view_wid_map' \ DOMAIN view_wid_map :
                     /\ DOMAIN view_wid_map' = DOMAIN view_wid_map \cup {w}
                     /\ view_wid_map'[w] = ord
                     /\ views'[ord] = w
              /\ \A w \in DOMAIN view_wid_map : view_wid_map'[w] = view_wid_map[w]]_vars

\* C28 witness: the command processed last created a second view, while the
\* first has a registered callback.
SecondViewCreated ==
    /\ applied # <<>>
    /\ applied[Len(applied)].type = "CreateWebView"
    /\ view_event_callback_map[applied[Len(applied)].ord] = EmptyMap
    /\ \E o \in DOMAIN views \ {applied[Len(applied)].ord} :
           /\ view_event_callback_map[o] # EmptyMap
           /\ \E w \in DOMAIN view_wid_map : view_wid_map[w] = o

\* C29: registering a (view, kind) pair again leaves the registry entries
\* there were: processing RegisterEvent changes nothing in the registry,
\* View::bind only adds the entry of its new callback, and an entry leaves
\* the registry only in a step that calls Callback::remove on its id.
ReRegistrationKeepsRegistry ==
    [][/\ (/\ cmdq # <<>>
           /\ applied' = Append(applied, Head(cmdq))
           /\ Head(cmdq).type = "RegisterEvent")
          => CALLBACKS' = CALLBACKS
       /\ (/\ sent_count' = sent_count + 1
           /\ cmdq'[Len(cmdq')].type = "RegisterEvent")
          => \A id \in DOMAIN CALLBACKS :
                 id \in DOMAIN CALLBACKS' /\ CALLBACKS'[id] = CALLBACKS[id]
       /\ \A id \in DOMAIN CALLBACKS :
              id \notin DOMAIN CALLBACKS' => id \in removed' \ removed]_vars

\* C29 witness: a second registration of a pair has been processed and the
\* callback of the first is still stored, with the one of the second.
BothRegistrationsStored ==
    \E ord \in DOMAIN view_event_callback_map, key \in ViewEventKeys :
        /\ Len(Registered(ord, key)) = 2
        /\ \A i \in 1..2 : Callback_get(Registered(ord, key)[i])
        /\ Registered(ord, key)[1] # Registered(ord, key)[2]

\* C30: solve appends to the path of whichever variant the agent has and
\* keeps ord and id: a.solve(p).solve(q) = a.solve(p ++ q), a.solve([]) = a,
\* root().solve(p) is Path(p) and lookup(id).solve(p) is IdPath(id, p).
SolveAppends ==
    calc.mode = "solve"
        => /\ calc.stage >= 1
                 => /\ calc.r1.ord = calc.a.ord
                    /\ calc.r1.kind = calc.a.kind
                    /\ calc.r1.id = calc.a.id
                    /\ calc.r1.path = calc.a.path \o calc.p
                    /\ calc.a = root(calc.a.ord)
                           => calc.r1 = Agent(calc.a.ord, "Path", <<>>, calc.p)
                    /\ calc.a = lookup(calc.a.ord, calc.a.id)
                           => calc.r1 = Agent(calc.a.ord, "IdPath", calc.a.id, calc.p)
           /\ calc.stage >= 3 => calc.r2 = calc.r3
           /\ calc.stage >= 4 => calc.r4 = calc.a

\* C30 witness: the four results are there for an IdPath agent that has a
\* path of its own, and for two paths that are not empty.
SolvedFromIdPath ==
    /\ calc.mode = "solve" /\ calc.stage = 4
    /\ calc.a.kind = "IdPath"
    /\ calc.a.path # <<>> /\ calc.p # <<>> /\ calc.q # <<>>
    /\ calc.p # calc.q

\* the map of the pairs
PairMap(ps) ==
    [k \in {ps[i].key : i \in DOMAIN ps} |->
        ps[CHOOSE i \in DOMAIN ps : ps[i].key = k].val]

\* C31: the message of a map of newline-free keys and values, empty values
\* included, decodes to its callback id and exactly that map.
DetailMapRecovered ==
    (calc.mode = "wire" /\ calc.stage = 2)
        => /\ calc.d.ok
           /\ calc.d.cb_index = calc.id
           /\ calc.d.detail = PairMap(calc.pairs)

\* the controller calls user_dispatch in this step: the invocation is queued,
\* or the call panics
Dispatching ==
    \/ dispatch_log' # dispatch_log
    \/ \E f \in faults' \ faults : f.cause = "user_dispatch"

\* C32: whenever the controller calls user_dispatch, for a native event or
\* an IPC message, the user thread has installed the sender before.
SenderInstalledBeforeDispatch ==
    [][Dispatching => SENDER /\ upc \notin {"unspawned", "spawned", "proxy_set"}]_vars

\* C32 witness: an invocation was dispatched while entry() was still
\* running.
DispatchedDuringEntry ==
    /\ dispatchq # <<>>
    /\ upc = "entry"
    /\ SENDER

\* a dispatched invocation leaves the channel and starts on the user thread
InvocationStarts ==
    \/ Len(dispatchq') < Len(dispatchq)
    \/ invoked' # invoked

\* C33: a dispatched invocation starts only while the user thread waits in
\* rx.recv(), that is after user_init() or the previous callback body has
\* returned, and one step starts one invocation only.
InvocationsRunOneAtATime ==
    [][InvocationStarts =>
          /\ upc = "recv"
          /\ upc' \in {"callback", "panicked", "recv"}
          /\ Len(dispatchq') = Len(dispatchq) - 1
          /\ Len(invoked') \in {Len(invoked), Len(invoked) + 1}]_vars

\* C33 witness: a callback body is running on the user thread while a later
\* invocation waits in the channel.
BodyRunningWithInvocationQueued ==
    /\ upc = "callback"
    /\ invoked # <<>>
    /\ dispatchq # <<>>
    /\ dispatchq[1].n > invoked[Len(invoked)].n

\* the invocation numbered n is still in the dispatch channel
Queued(n) == \E i \in DOMAIN dispatchq : dispatchq[i].n = n

\* how many times the body of invocation n was called
Runs(n) == Cardinality({i \in DOMAIN invoked : invoked[i].n = n})

\* the receive loop of the user thread ended inside a closure it had
\* received, though user_init() and every callback body called had returned
ReceiveLoopExited ==
    /\ upc = "panicked"
    /\ \E f \in faults : /\ f.thread = "user"
                         /\ f.cause = "Callback::invoke"
                         /\ f.kind \in {"native", "ipc"}

\* C34: every invocation the controller pushed is run at most once, the
\* closure of an IPC message that has left the channel has run its callback
\* body once, and the receive loop has not ended while the controller runs
\* with a view that can still dispatch.
PushedInvocationsRunOnce ==
    /\ \A n \in DOMAIN dispatch_log :
          /\ Runs(n) <= 1
          /\ (dispatch_log[n].kind = "ipc" /\ ~Queued(n)) => Runs(n) = 1
    /\ ~(ReceiveLoopExited /\ Alive /\ DOMAIN views # {})

\* C35: every ord a window id maps to has a callback map, so the lookup
\* view_event_callback_map.get(&ord).unwrap() of the native-event arms never
\* fails, also after DestroyWebView and after RegisterEvent.
NativeLookupNeverFails ==
    /\ \A w \in DOMAIN view_wid_map :
          view_wid_map[w] \in DOMAIN view_event_callback_map
    /\ \A f \in faults : f.cause # "native"

\* C35 witness: the window of a destroyed view is still mapped to its ord,
\* and the callback map of that ord still holds a registration.
DestroyedViewKeepsCallbackMap ==
    \E w \in DOMAIN view_wid_map :
        /\ view_wid_map[w] \notin DOMAIN views
        /\ view_wid_map[w] \in DOMAIN view_event_callback_map
        /\ view_event_callback_map[view_wid_map[w]] # EmptyMap

\* every command sent has been processed and no thread has failed
Quiescent == cmdq = <<>> /\ faults = {} /\ ctrl # "panicked" /\ upc # "panicked"

\* C36: whenever every command sent has been processed and no fatal error
\* occurred, the ords of the controller's views are exactly the ords
\* View::acquire accepts on the user thread.
LiveViewsAgree ==
    Quiescent => \A ord \in 0..(MaxSteps + 1) : (ord \in DOMAIN views) <=> acquire(ord)

\* C36 witness: two views were created and the older one destroyed, every
\* command has been processed, and both threads hold the newer view only.
BothSidesHoldNewerView ==
    /\ Quiescent
    /\ Len(new_ords) = 2
    /\ \E i \in DOMAIN applied : /\ applied[i].type = "DestroyWebView"
                                 /\ applied[i].ord = new_ords[1]
    /\ DOMAIN views = {new_ords[2]}
    /\ acquire(new_ords[2]) /\ ~acquire(new_ords[1])

\* the commands that name a view
ViewCommands == {"CreateWebView", "RegisterEvent", "EvalScript", "DestroyWebView"}

\* the controller processes CreateWebView(ord) in this step
ProcessesCreate(ord) ==
    /\ CtrlUserEvent
    /\ proxy_next(cmdq).ev.type = "CreateWebView"
    /\ proxy_next(cmdq).ev.ord = ord

\* C37: the controller processes CreateWebView(ord) at most once and before
\* every RegisterEvent, EvalScript and DestroyWebView naming ord; when it
\* does, ord has no surface in views and no callback map that the reset could
\* discard.
CreateProcessedFirst ==
    /\ [](\A i \in DOMAIN applied :
            applied[i].type = "CreateWebView" =>
                \A j \in 1..(i - 1) :
                    applied[j].type \in ViewCommands => applied[j].ord # applied[i].ord)
    /\ [][\A ord \in 0..(MaxSteps + 1) :
            ProcessesCreate(ord) =>
                /\ ord \notin DOMAIN views
                /\ ord \notin DOMAIN view_event_callback_map]_vars

\* C37 witness: a view was created and an event registered on it, then a
\* second view was created, and the registration of the first is still there.
RegistrationSurvivesLaterCreate ==
    \E i, j, k \in DOMAIN applied :
        /\ i < j /\ j < k
        /\ applied[i].type = "CreateWebView"
        /\ applied[j].type = "RegisterEvent" /\ applied[j].ord = applied[i].ord
        /\ applied[k].type = "CreateWebView"
        /\ applied[i].ord \in DOMAIN view_event_callback_map
        /\ view_event_callback_map[applied[i].ord] # EmptyMap

=============================================================================
